---- MODULE Spec2Model ----
(***************************************************************************)
(* Model of the two-stage Visual-to-Olfactory pipeline:                    *)
(*   vlm_client.py  _step1_visual_analysis (coverage gate, recursive       *)
(*                  retry), _step2_olfactory_inference, the public         *)
(*                  wrappers and analyze_video_sequence (standard mode);   *)
(*   main.py        main (comparative mode, three experiment conditions).  *)
(* The VLM, the prompt template files, the frame sampler and the file      *)
(* system are the environment: every answer they can give is a             *)
(* nondeterministic choice.                                                *)
(* Timestamps are counted in tenths of a second, so that the float         *)
(* comparisons of the coverage gate become exact integer comparisons.      *)
(***************************************************************************)
EXTENDS Integers, Sequences, FiniteSets, TLC

VARIABLES
    mode,          \* "standard" (analyze_video_sequence), "comparative" (main),
                   \* "stage1" (perform_visual_analysis alone)
    pc,            \* position of the orchestrator
    cond,          \* index of the running experiment condition (0: none)
    total_frames,  \* len(frame_paths)
    fps,           \* target_fps
    stack,         \* active _step1_visual_analysis calls, outermost first
    sig,           \* value or exception travelling up the Stage-1 call stack
    reqCount,      \* Stage-1 VLM requests of the current perform_visual_analysis
    onlyRejected,  \* every Stage-1 response so far was a coverage-rejected report
    onlyFailed,    \* every Stage-1 request so far failed (error, empty, non-conforming)
    renderFailed,  \* why a Stage-1 attempt stopped before its VLM request, or "no"
    last,          \* what the last Stage-1 request did
    visual_report, \* the VisualAnalysisReport handed to Stage 2
    s2Reqs,        \* Stage-2 VLM requests of the current condition
    s2Sent,        \* meta of the visual report embedded in the Stage-2 prompt
    s2Failure,     \* cause of the Stage-2 failure of the current condition
    report,        \* the OlfactoryAnalysisReport in the orchestrator's hands
    started,       \* conditions whose try block was entered
    failed,        \* conditions that ended in the except clause, with the cause
    written,       \* per condition, the meta of the artifact written
    result,        \* what analyze_video_sequence gave its caller, how main ended
    configFile,    \* the contents a read of config.json can find
    promptFile,    \* per stage, the contents a read of the template file can find
    config,        \* what the running stage call derived from load_config()
    s1Used,        \* model and extra text of the Stage-1 requests of the current
                   \* perform_visual_analysis
    schema,        \* a document on its way through model_validate_json, the
                   \* stamping, model_dump_json and model_validate_json again
    output,        \* args.output
    out_paths,     \* per condition, the path its artifact is written to
    files          \* the artifact files on disk: path and meta of the content

vars == <<mode, pc, cond, total_frames, fps, stack, sig, reqCount, onlyRejected,
          onlyFailed, renderFailed, last, visual_report, s2Reqs, s2Sent,
          s2Failure, report, started, failed, written, result,
          configFile, promptFile, config, s1Used, schema, output, out_paths, files>>

stage1Vars == <<stack, sig, reqCount, onlyRejected, onlyFailed, renderFailed, last,
                s1Used>>
stage2Vars == <<s2Reqs, s2Sent, s2Failure>>
outcomeVars == <<started, failed, written, files, result>>
fileVars == <<configFile, promptFile>>
inputVars == <<mode, total_frames, fps, fileVars, schema, output, out_paths>>

----------------------------------------------------------------------------
(* Bounds of the checked input space *)

MaxFrames == 40
MaxFps == 4
MaxTimestamp == 100
MaxEntries == 10
\* cap of the request counter; the code never sends more than 7 requests
MaxRequests == 8

(* Inputs of the pipeline runs *)
FrameCounts == {0, 38, 40}
FpsChoices == {4}
LastTimestamps == {90, 96}
EntryCounts == {0, 7, 9}

----------------------------------------------------------------------------
(* Metadata maps *)

MetaKeys == {"source_video", "generated_at", "experiment_condition"}
Absent == "<absent>"
VideoPath == "video.mp4"
Now == "2024-01-01T00:00:00"
ExperimentNames ==
    <<"OURS (System-generated Plan)",
      "BASELINE 1 (Over-Inclusive)",
      "BASELINE 2 (Naive/Object-Based)">>
NumConditions == Len(ExperimentNames)

EmptyMeta == [k \in MetaKeys |-> Absent]
\* a meta the model itself made up, with an empty source_video
VlmMeta == [k \in MetaKeys |->
               IF k = "source_video" THEN "" ELSE
               IF k = "generated_at" THEN Absent ELSE "invented"]
VlmMetas == {EmptyMeta, VlmMeta}
OrchestratorValues == {VideoPath, Now} \cup {ExperimentNames[i] : i \in 1..NumConditions}

Nil == [type |-> "nil"]
NoSig == [kind |-> "none", val |-> Nil]

----------------------------------------------------------------------------
(* Prompt templates: a template is the set of placeholders it names, or    *)
(* Unreadable when open() fails.                                           *)

Unreadable == {"<unreadable>"}
Step1Full == {"fps", "estimated_duration", "expected_entries", "extra_requirements"}
Step1Reduced == {"fps", "estimated_duration"}
Step1Templates == (SUBSET (Step1Full \cup {"other"})) \cup {Unreadable}
Step2Full == {"visual_json", "extra_rules"}
Step2Reduced == {"visual_json"}
Step2Templates == (SUBSET (Step2Full \cup {"other"})) \cup {Unreadable}

\* the template has to name every variable it is given
FormatOkExact(placeholders, supplied) == placeholders = supplied

\* str.format(**supplied): KeyError iff the template names a placeholder
\* that is not supplied
FormatOk(placeholders, supplied) == placeholders \subseteq supplied

Step1RenderOk(t) ==
    /\ t # Unreadable
    /\ \/ FormatOk(t, Step1Full)
       \/ FormatOk(t, Step1Reduced)

Step2RenderOk(t) ==
    /\ t # Unreadable
    /\ \/ FormatOk(t, Step2Full)
       \/ FormatOk(t, Step2Reduced)

----------------------------------------------------------------------------
(* Configuration: the document config.json, load_config and                *)
(* _generate_environmental_prompt.  A section of the document is absent or *)
(* an object; each of its keys is absent, false or true.  An extra text is *)
(* the sequence of its lines, header first; the empty string is <<>>.      *)

DEFAULT_MODEL == "gemini-2.5-flash"
CustomModel == "custom-model"

Step1Toggles ==
    <<"detect_temperature_cues", "detect_airflow_indicators",
      "detect_humidity_visuals", "detect_spatial_context">>
Step2Toggles ==
    <<"apply_thermodynamics", "apply_aerodynamics",
      "apply_hygrometry", "apply_spatial_concentration">>

Step1Header == "8. Environmental Context"
Step2Header == "5. Environmental Physics"

ToggleLine ==
    [detect_temperature_cues |-> "Temperature Cues",
     detect_airflow_indicators |-> "Airflow Indicators",
     detect_humidity_visuals |-> "Humidity/Moisture",
     detect_spatial_context |-> "Spatial Context",
     apply_thermodynamics |-> "Thermodynamics",
     apply_aerodynamics |-> "Aerodynamics",
     apply_hygrometry |-> "Hygrometry",
     apply_spatial_concentration |-> "Spatial Concentration"]

Range(seq) == {seq[i] : i \in 1..Len(seq)}

ToggleValues == {Absent, "false", "true"}

AbsentSection(toggles) ==
    [present |-> FALSE, model_name |-> Absent,
     toggles |-> [k \in Range(toggles) |-> Absent]]

Sections(toggles) ==
    {AbsentSection(toggles)} \cup
    {[present |-> TRUE, model_name |-> m, toggles |-> t] :
        m \in {Absent, CustomModel}, t \in [Range(toggles) -> ToggleValues]}

MissingDoc == [type |-> "missing"]
MalformedDoc == [type |-> "malformed"]
JsonDoc(s1, s2) ==
    [type |-> "json", step1_visual_config |-> s1, step2_olfactory_config |-> s2]

AllConfigDocs ==
    {MissingDoc, MalformedDoc} \cup
    {JsonDoc(s1, s2) : s1 \in Sections(Step1Toggles), s2 \in Sections(Step2Toggles)}

\* a document that names a model and sets one toggle of each stage
CustomDoc ==
    JsonDoc([present |-> TRUE, model_name |-> CustomModel,
             toggles |-> [k \in Range(Step1Toggles) |->
                            IF k = "detect_temperature_cues" THEN "true" ELSE Absent]],
            [present |-> TRUE, model_name |-> CustomModel,
             toggles |-> [k \in Range(Step2Toggles) |->
                            IF k = "apply_thermodynamics" THEN "true" ELSE "false"]])

\* json.load fails on a malformed document; only FileNotFoundError is caught
LoadConfigRaises(doc) == doc.type = "malformed"

\* load_config: {} when the file does not exist
LoadConfig(doc) ==
    IF doc.type = "missing"
    THEN JsonDoc(AbsentSection(Step1Toggles), AbsentSection(Step2Toggles))
    ELSE doc

\* an absent key counts as set
TruthyUnlessFalse(v) == v # "false"

\* the truth value of s_config.get(key)
Truthy(v) == v = "true"

\* config.get(section, {}).get("model_name", DEFAULT_MODEL)
ModelName(section) ==
    IF section.present /\ section.model_name # Absent
    THEN section.model_name
    ELSE DEFAULT_MODEL

\* the parts appended for the toggles of a section, in the order of the code
Parts(section, toggles) ==
    LET on == SelectSeq(toggles,
                        LAMBDA k : section.present /\ Truthy(section.toggles[k]))
    IN  [i \in 1..Len(on) |-> ToggleLine[on[i]]]

ExtraText(header, parts) ==
    IF Len(parts) = 0 THEN <<>> ELSE <<header>> \o parts

GenerateEnvironmentalPrompt(c) ==
    [step1_extra |-> ExtraText(Step1Header, Parts(c.step1_visual_config, Step1Toggles)),
     step2_extra |-> ExtraText(Step2Header, Parts(c.step2_olfactory_config, Step2Toggles))]

\* lines 76-79
Step1Settings(doc) ==
    LET c == LoadConfig(doc)
    IN  [stage |-> 1, model_name |-> ModelName(c.step1_visual_config),
         extra |-> GenerateEnvironmentalPrompt(c).step1_extra]

\* lines 180-183
Step2Settings(doc) ==
    LET c == LoadConfig(doc)
    IN  [stage |-> 2, model_name |-> ModelName(c.step2_olfactory_config),
         extra |-> GenerateEnvironmentalPrompt(c).step2_extra]

\* the documents of the pipeline runs
ConfigChoices == {MissingDoc, CustomDoc, MalformedDoc}

----------------------------------------------------------------------------
(* Schemas: schemas.py, OlfactoryAnalysisReport.model_validate_json and    *)
(* model_dump_json.  A document is the parsed JSON text: a number field is  *)
(* a finite number (times and coverages in tenths), NaN, Infinity, a value  *)
(* that is no number, null, or missing.  The models of schemas.py declare   *)
(* types only: no validator, no range.                                      *)

MaxEvents == 1

Num(v) == [k |-> "num", v |-> v]
NaN == [k |-> "nan"]
Infinity == [k |-> "inf"]
NotANumber == [k |-> "str"]
Missing == [k |-> "missing"]
Null == [k |-> "null"]
None == [k |-> "none"]

TimeInputs == {Num(0), Num(15), NaN, Infinity, NotANumber, Missing}
CoverageInputs == {Num(-1), Num(5), Num(11), NaN, NotANumber}

Proximity(a, b) ==
    [k |-> "obj", frame_coverage_start |-> a, frame_coverage_end |-> b]

ProximityInputs ==
    {Missing, Null} \cup {Proximity(a, b) : a, b \in CoverageInputs}

EventInputs ==
    {[start_s |-> s, end_s |-> e, proximity |-> p] :
        s \in TimeInputs, e \in TimeInputs, p \in ProximityInputs}

SeqsUpTo(S, n) == UNION {[1..k -> S] : k \in 0..n}

ReportDocs ==
    {[meta |-> m, olfactory_events |-> es] :
        m \in {Missing} \cup VlmMetas, es \in SeqsUpTo(EventInputs, MaxEvents)}

\* a float field: any JSON number, NaN and Infinity included (allow_inf_nan)
IsFloat(j) == j.k \in {"num", "nan", "inf"}

\* proximity: Optional[ProximityData] = None
ProximityOk(p) ==
    \/ p.k \in {"missing", "null"}
    \/ /\ p.k = "obj"
       /\ IsFloat(p.frame_coverage_start)
       /\ IsFloat(p.frame_coverage_end)

EventOk(e) == IsFloat(e.start_s) /\ IsFloat(e.end_s) /\ ProximityOk(e.proximity)

ParseProximity(p) == IF p.k \in {"missing", "null"} THEN None ELSE p

ParseEvent(e) ==
    [start_s |-> e.start_s, end_s |-> e.end_s,
     proximity |-> ParseProximity(e.proximity)]

\* OlfactoryAnalysisReport.model_validate_json
ValidateJson(doc) ==
    IF /\ doc.meta # Missing
       /\ \A i \in 1..Len(doc.olfactory_events) : EventOk(doc.olfactory_events[i])
    THEN [ok |-> TRUE,
          value |-> [meta |-> doc.meta,
                     olfactory_events |->
                        [i \in 1..Len(doc.olfactory_events) |->
                            ParseEvent(doc.olfactory_events[i])]]]
    ELSE [ok |-> FALSE, value |-> Nil]

\* model_dump_json writes NaN and Infinity as null
DumpFloat(x) == IF x.k = "num" THEN x ELSE Null

DumpProximity(p) ==
    IF p = None THEN Null
    ELSE Proximity(DumpFloat(p.frame_coverage_start), DumpFloat(p.frame_coverage_end))

DumpEvent(e) ==
    [start_s |-> DumpFloat(e.start_s), end_s |-> DumpFloat(e.end_s),
     proximity |-> DumpProximity(e.proximity)]

\* report.model_dump_json
DumpJson(value) ==
    [meta |-> value.meta,
     olfactory_events |->
        [i \in 1..Len(value.olfactory_events) |-> DumpEvent(value.olfactory_events[i])]]

\* == of two floats
FloatEq(a, b) ==
    \/ a.k = "num" /\ b.k = "num" /\ a.v = b.v
    \/ a.k = "inf" /\ b.k = "inf"

\* a >= b of two floats
FloatGe(a, b) ==
    \/ a.k = "num" /\ b.k = "num" /\ a.v >= b.v
    \/ a.k = "inf" /\ b.k \in {"num", "inf"}

ProximityEq(p, q) ==
    \/ p = None /\ q = None
    \/ /\ p # None /\ q # None
       /\ FloatEq(p.frame_coverage_start, q.frame_coverage_start)
       /\ FloatEq(p.frame_coverage_end, q.frame_coverage_end)

\* == of two OlfactoryAnalysisReport values, field for field
ReportEq(v, w) ==
    /\ v.meta = w.meta
    /\ Len(v.olfactory_events) = Len(w.olfactory_events)
    /\ \A i \in 1..Len(v.olfactory_events) :
         /\ FloatEq(v.olfactory_events[i].start_s, w.olfactory_events[i].start_s)
         /\ FloatEq(v.olfactory_events[i].end_s, w.olfactory_events[i].end_s)
         /\ ProximityEq(v.olfactory_events[i].proximity, w.olfactory_events[i].proximity)

----------------------------------------------------------------------------
(* Stage-1 validation logic *)

\* int(total_frames / fps)
ExpectedEntries(frames, f) == frames \div f

\* a threshold of 90% instead of 95%
CoverageOkNinety(ts, frames, f) == ts * f * 100 >= 90 * frames * 10

\* coverage_ratio >= 0.95 with coverage_ratio = (ts/10) / (frames/f)
CoverageOk(ts, frames, f) == ts * f * 100 >= 95 * frames * 10

\* entry_count >= expected_entries * 0.8
EntriesOk(n, frames, f) == n * 10 >= ExpectedEntries(frames, f) * 8

\* valid_coverage for a report with a non-empty frame_log
StrictValidation(ts, n, frames, f) ==
    CoverageOk(ts, frames, f) /\ EntriesOk(n, frames, f)

\* "accepted", "rejected", or "gate_error" when last_timestamp /
\* estimated_duration divides by zero
CoverageGate(ts, n, frames, f) ==
    IF n = 0 THEN "rejected"
    ELSE IF frames = 0 THEN "gate_error"
    ELSE IF StrictValidation(ts, n, frames, f) THEN "accepted"
    ELSE "rejected"

\* a ceiling of two attempts instead of three
RetryOnRejectionTwo(attempt) == attempt < 2

\* a rejected report is always retried
RetryOnRejectionAlways(attempt) == TRUE

\* line 160
RetryOnRejection(attempt) == attempt < 3

\* a ceiling of two attempts instead of three
RetryOnErrorTwo(attempt) == attempt < 2

\* a retry is also started from attempt 3
RetryOnErrorFour(attempt) == attempt <= 3

\* line 170
RetryOnError(attempt) == attempt < 3

----------------------------------------------------------------------------
(* Stage 1: _step1_visual_analysis.  A frame of the stack is one call; its *)
(* field at is where the call stands: "render" (lines 76-119), "request"   *)
(* (the generate_content call of line 124), "call_try" (waiting for the    *)
(* recursive call of line 162, inside the try block) or "call_except"      *)
(* (waiting for the recursive call of line 172, inside the handler).       *)

Frame(attempt, at) == [attempt |-> attempt, at |-> at]

Top == stack[Len(stack)]

Below == SubSeq(stack, 1, Len(stack) - 1)

Error(cause, req) == [type |-> "error", cause |-> cause, req |-> req]

\* heat: some frame_log entry records a thermal cue (environment.temperature)
VisualReport(req, attempt, ts, n, meta, heat) ==
    [type |-> "visual", req |-> req, attempt |-> attempt,
     last_timestamp |-> ts, entry_count |-> n, meta |-> meta, heat |-> heat]

\* what generate_content plus model_validate_json can give
VisualResponses ==
    {[type |-> t, last_timestamp |-> 0, entry_count |-> 0, meta |-> EmptyMeta,
      heat |-> FALSE] :
        t \in {"provider_error", "empty", "nonconforming"}}
    \cup
    {[type |-> "report", last_timestamp |-> IF n = 0 THEN 0 ELSE ts,
      entry_count |-> n, meta |-> m, heat |-> n > 0 /\ h] :
        ts \in LastTimestamps, n \in EntryCounts, m \in VlmMetas, h \in BOOLEAN}

\* the call frame_paths, fps, attempt + 1, prompt_file made from the site at
Recurse(site) ==
    /\ stack' = Below \o <<Frame(Top.attempt, site), Frame(Top.attempt + 1, "render")>>
    /\ sig' = NoSig

Return(r) ==
    /\ stack' = Below
    /\ sig' = [kind |-> "ret", val |-> r]

Raise(e) ==
    /\ stack' = Below
    /\ sig' = [kind |-> "exc", val |-> e]

\* lines 168-173: the handler of the try block
ExceptHandler(e) ==
    IF RetryOnError(Top.attempt) THEN Recurse("call_except") ELSE Raise(e)

\* the report is returned whatever the validation said
AfterValidationNoRetry(r, valid_coverage) == Return(r)

\* lines 159-166
AfterValidation(r, valid_coverage) ==
    IF ~valid_coverage
    THEN IF RetryOnRejection(Top.attempt) THEN Recurse("call_try") ELSE Return(r)
    ELSE Return(r)

\* perform_visual_analysis: the first call, attempt = 1
CallStage1 ==
    /\ stack' = <<Frame(1, "render")>>
    /\ sig' = NoSig
    /\ reqCount' = 0
    /\ onlyRejected' = TRUE
    /\ onlyFailed' = TRUE
    /\ renderFailed' = "no"
    /\ last' = Nil
    /\ s1Used' = {}

InStage1 == pc = "stage1" /\ stack # <<>>

\* lines 76-119: load the configuration, read and format the template, read
\* the frame files; all of it outside the try block of line 123
Step1Render ==
    /\ InStage1 /\ sig.kind = "none" /\ Top.at = "render"
    /\ \E doc \in configFile, t \in promptFile.step1, framesReadable \in BOOLEAN :
         IF LoadConfigRaises(doc)
         THEN /\ Raise(Error("config", 0))
              /\ renderFailed' = "config"
              /\ UNCHANGED config
         ELSE /\ config' = Step1Settings(doc)
              /\ IF Step1RenderOk(t) /\ framesReadable
                 THEN /\ stack' = Below \o <<Frame(Top.attempt, "request")>>
                      /\ UNCHANGED <<sig, renderFailed>>
                 ELSE /\ Raise(Error(IF Step1RenderOk(t) THEN "frame_read"
                                     ELSE "template", 0))
                      /\ renderFailed' = IF Step1RenderOk(t) THEN "frame_read"
                                         ELSE "template"
    /\ UNCHANGED <<reqCount, onlyRejected, onlyFailed, last, s1Used>>
    /\ UNCHANGED <<inputVars, pc, cond, visual_report, stage2Vars, report, outcomeVars>>

\* lines 123-173: the request, the parse, the validation logic and the
\* decision to return, retry or raise
Step1RequestFrom(responses) ==
    /\ InStage1 /\ sig.kind = "none" /\ Top.at = "request"
    /\ reqCount < MaxRequests
    /\ \E resp \in responses :
         LET req == reqCount + 1
             r == VisualReport(req, Top.attempt, resp.last_timestamp,
                               resp.entry_count, resp.meta, resp.heat)
             verdict == IF resp.type = "report"
                        THEN CoverageGate(resp.last_timestamp, resp.entry_count,
                                          total_frames, fps)
                        ELSE resp.type
         IN /\ reqCount' = req
            /\ s1Used' = s1Used \cup {[model_name |-> config.model_name,
                                        extra |-> config.extra]}
            /\ last' = [type |-> "response", response |-> resp.type,
                        verdict |-> verdict, req |-> req, attempt |-> Top.attempt,
                        last_timestamp |-> resp.last_timestamp,
                        entry_count |-> resp.entry_count]
            /\ onlyRejected' = (onlyRejected /\ verdict = "rejected")
            /\ onlyFailed' = (onlyFailed /\
                              verdict \in {"provider_error", "empty", "nonconforming"})
            /\ IF verdict \in {"accepted", "rejected"}
               THEN AfterValidation(r, verdict = "accepted")
               ELSE ExceptHandler(Error(verdict, req))
    /\ UNCHANGED <<renderFailed, config>>
    /\ UNCHANGED <<inputVars, pc, cond, visual_report, stage2Vars, report, outcomeVars>>

Step1Request == mode # "stage1" /\ Step1RequestFrom(VisualResponses)

\* a recursive call has ended: "return _step1_visual_analysis(...)" passes a
\* report up; an exception is caught when the call was made inside the try
\* block (line 162) and passes up when it was made in the handler (line 172)
Step1Unwind ==
    /\ InStage1 /\ sig.kind # "none"
    /\ IF sig.kind = "ret" THEN Return(sig.val)
       ELSE IF Top.at = "call_try" THEN ExceptHandler(sig.val)
       ELSE Raise(sig.val)
    /\ UNCHANGED <<reqCount, onlyRejected, onlyFailed, renderFailed, last, s1Used,
                   config>>
    /\ UNCHANGED <<inputVars, pc, cond, visual_report, stage2Vars, report, outcomeVars>>

----------------------------------------------------------------------------
(* Output paths: main.py lines 29-49.  A path is a sequence of tokens: "/" *)
(* is a separator, "." a dot, any other token a run of characters without  *)
(* either.  An absent --output and an empty one are both <<>>.             *)

MaxPathLen == 3

PathTokens == {"r", ".", "/"}
OutputChoices == SeqsUpTo(PathTokens, MaxPathLen)

VideoPathTokens == <<"video", ".", "mp4">>
Timestamp == "20240101_000000"
OutputDir == <<"output_reports">>
ConditionTags == <<"_OURS", "_BASELINE_OVERINCLUSIVE", "_BASELINE_NAIVE">>

\* the last position of token ch in p, 0 when there is none
LastIndexOf(p, ch) ==
    IF \E i \in 1..Len(p) : p[i] = ch
    THEN CHOOSE i \in 1..Len(p) :
            p[i] = ch /\ \A j \in (i + 1)..Len(p) : p[j] # ch
    ELSE 0

\* os.path.basename
BaseName(p) == SubSeq(p, LastIndexOf(p, "/") + 1, Len(p))

\* os.path.splitext: the extension starts at the last dot of the last
\* component, unless only dots precede it there
SplitExt(p) ==
    LET sep == LastIndexOf(p, "/")
        dot == LastIndexOf(p, ".")
    IN  IF dot > sep /\ \E i \in (sep + 1)..(dot - 1) : p[i] # "."
        THEN <<SubSeq(p, 1, dot - 1), SubSeq(p, dot, Len(p))>>
        ELSE <<p, <<>>>>

\* os.path.join of a directory and one more component
Join(dir, name) ==
    IF name # <<>> /\ name[1] = "/" THEN name ELSE dir \o <<"/">> \o name

\* an explicit --output is used as it is for every condition
OutPathsUntagged(out) ==
    LET base == SplitExt(BaseName(VideoPathTokens))[1]
    IN  IF out # <<>>
        THEN [c \in 1..NumConditions |-> out]
        ELSE [c \in 1..NumConditions |->
                Join(OutputDir,
                     base \o <<ConditionTags[c], "_", Timestamp, ".", "json">>)]

\* lines 30-49: path_ours, path_over, path_naive
OutPaths(out) ==
    LET base == SplitExt(BaseName(VideoPathTokens))[1]
    IN  IF out # <<>>
        THEN [c \in 1..NumConditions |->
                SplitExt(out)[1] \o <<ConditionTags[c]>> \o SplitExt(out)[2]]
        ELSE [c \in 1..NumConditions |->
                Join(OutputDir,
                     base \o <<ConditionTags[c], "_", Timestamp, ".", "json">>)]

\* open(out_path, "w") and write: the file is created or replaced
WriteFile(fs, path, content) ==
    {f \in fs : f.path # path} \cup {[path |-> path, meta |-> content]}

----------------------------------------------------------------------------
(* Orchestration: main.py main (comparative mode) and vlm_client.py        *)
(* analyze_video_sequence (standard mode).                                 *)

NoArtifact == Nil

Exit(cause) == [kind |-> "exit", val |-> [type |-> "exit", cause |-> cause]]

\* the loop body starts condition c: perform_visual_analysis is called
EnterCondition(c) ==
    /\ cond' = c
    /\ started' = started \cup {c}
    /\ pc' = "stage1"
    /\ CallStage1
    /\ visual_report' = Nil
    /\ report' = Nil

\* after the last statement or the except clause of condition c
NextIteration(c) ==
    IF c < NumConditions
    THEN /\ EnterCondition(c + 1)
         /\ UNCHANGED result
    ELSE /\ pc' = "done"
         /\ result' = Exit("complete")
         /\ UNCHANGED <<cond, started, visual_report, report, stage1Vars>>

\* the exception of a condition ends the loop
ConditionFailedAborts(c, cause) ==
    /\ failed' = [failed EXCEPT ![c] = cause]
    /\ pc' = "done"
    /\ result' = Exit("critical")
    /\ UNCHANGED <<cond, started, visual_report, report, stage1Vars>>

\* lines 93-94 of main.py: the condition's exception is printed, the loop goes on
ConditionFailed(c, cause) ==
    /\ failed' = [failed EXCEPT ![c] = cause]
    /\ NextIteration(c)

\* the conditions are run even when the sampler gave no frame
ExtractFramesUnguarded ==
    /\ mode = "comparative" /\ pc = "start"
    /\ \E outcome \in {[kind |-> k, n |-> 0] : k \in {"missing", "open_error"}} \cup
                      {[kind |-> "frames", n |-> n] : n \in FrameCounts} :
         /\ out_paths' = IF outcome.kind = "missing" THEN out_paths
                         ELSE OutPaths(output)
         /\ IF outcome.kind # "frames"
            THEN /\ pc' = "done"
                 /\ result' = Exit(outcome.kind)
                 /\ UNCHANGED <<cond, total_frames, started, visual_report, report, stage1Vars>>
            ELSE /\ total_frames' = outcome.n
                 /\ EnterCondition(1)
                 /\ UNCHANGED result
    /\ UNCHANGED <<mode, fps, fileVars, schema, output, config, stage2Vars, failed,
                   written, files>>

\* main.py lines 25-61: the video is looked up and the frames are extracted;
\* lines 66-79: the first condition starts
ExtractFrames ==
    /\ mode = "comparative" /\ pc = "start"
    /\ \E outcome \in {[kind |-> k, n |-> 0] : k \in {"missing", "open_error"}} \cup
                      {[kind |-> "frames", n |-> n] : n \in FrameCounts} :
         /\ out_paths' = IF outcome.kind = "missing" THEN out_paths
                         ELSE OutPaths(output)
         /\ IF outcome.kind # "frames"
            THEN /\ pc' = "done"
                 /\ result' = Exit(outcome.kind)
                 /\ UNCHANGED <<cond, total_frames, started, visual_report, report, stage1Vars>>
            ELSE IF outcome.n = 0
            THEN /\ pc' = "done"
                 /\ result' = Exit("no_frames")
                 /\ UNCHANGED <<cond, total_frames, started, visual_report, report, stage1Vars>>
            ELSE /\ total_frames' = outcome.n
                 /\ EnterCondition(1)
                 /\ UNCHANGED result
    /\ UNCHANGED <<mode, fps, fileVars, schema, output, config, stage2Vars, failed,
                   written, files>>

\* analyze_video_sequence line 252
AnalyzeVideoSequence ==
    /\ mode = "standard" /\ pc = "start"
    /\ pc' = "stage1"
    /\ CallStage1
    /\ UNCHANGED <<inputVars, config, cond, visual_report, stage2Vars, report,
                   outcomeVars>>

\* Stage 1 gave a report: Stage 2 is called with it
CallStage2(r) ==
    /\ visual_report' = r
    /\ pc' = "s2render"
    /\ s2Reqs' = 0
    /\ s2Sent' = Nil
    /\ s2Failure' = Nil

\* a failure of Stage 1 is swallowed in standard mode: Stage 2 runs on an
\* empty report
Stage1DoneSwallows ==
    /\ pc = "stage1" /\ stack = <<>> /\ sig.kind # "none"
    /\ IF sig.kind = "ret" \/ mode = "standard"
       THEN /\ CallStage2(IF sig.kind = "ret" THEN sig.val
                          ELSE VisualReport(0, 0, 0, 0, EmptyMeta, FALSE))
            /\ UNCHANGED <<cond, report, stage1Vars, outcomeVars>>
       ELSE /\ ConditionFailed(cond, "stage1")
            /\ UNCHANGED <<stage2Vars, written, files>>
    /\ UNCHANGED <<inputVars, config>>

\* Stage 2 is called whether Stage 1 returned or raised
Stage1DoneProceeds ==
    /\ pc = "stage1" /\ stack = <<>> /\ sig.kind # "none"
    /\ IF sig.kind = "ret" \/ mode = "comparative"
       THEN /\ CallStage2(IF sig.kind = "ret" THEN sig.val
                          ELSE VisualReport(0, 0, 0, 0, EmptyMeta, FALSE))
            /\ UNCHANGED <<cond, report, stage1Vars, outcomeVars>>
       ELSE /\ pc' = "done"
            /\ result' = sig
            /\ UNCHANGED <<cond, visual_report, stage2Vars, report, stage1Vars,
                           started, failed, written, files>>
    /\ UNCHANGED <<inputVars, config>>

\* the outermost _step1_visual_analysis call has ended
Stage1Done ==
    /\ pc = "stage1" /\ stack = <<>> /\ sig.kind # "none"
    /\ IF sig.kind = "ret"
       THEN /\ CallStage2(sig.val)
            /\ UNCHANGED <<cond, report, stage1Vars, outcomeVars>>
       ELSE IF mode = "standard"
       THEN /\ pc' = "done"
            /\ result' = sig
            /\ UNCHANGED <<cond, visual_report, stage2Vars, report, stage1Vars,
                           started, failed, written, files>>
       ELSE /\ ConditionFailed(cond, "stage1")
            /\ UNCHANGED <<stage2Vars, written, files>>
    /\ UNCHANGED <<inputVars, config>>

\* a failed request is sent again, up to 3 requests
Step2RaiseAfterRetries(e) ==
    IF e.req \in 1..2
    THEN /\ pc' = "s2request"
         /\ UNCHANGED <<s2Failure, result, cond, visual_report, report, stage1Vars,
                        started, failed>>
    ELSE /\ s2Failure' = [type |-> "failure", cause |-> e.cause, cond |-> cond]
         /\ IF mode = "standard"
            THEN /\ pc' = "done"
                 /\ result' = [kind |-> "exc", val |-> e]
                 /\ UNCHANGED <<cond, visual_report, report, stage1Vars, started, failed>>
            ELSE ConditionFailed(cond, "stage2")

\* an exception leaves _step2_olfactory_inference
Step2Raise(e) ==
    /\ s2Failure' = [type |-> "failure", cause |-> e.cause, cond |-> cond]
    /\ IF mode = "standard"
       THEN /\ pc' = "done"
            /\ result' = [kind |-> "exc", val |-> e]
            /\ UNCHANGED <<cond, visual_report, report, stage1Vars, started, failed>>
       ELSE ConditionFailed(cond, "stage2")

\* _step2_olfactory_inference returns r
Step2Return(r) ==
    /\ UNCHANGED s2Failure
    /\ IF mode = "standard"
       THEN /\ pc' = "done"
            /\ result' = [kind |-> "ret", val |-> r]
            /\ report' = r
       ELSE /\ pc' = "stamp"
            /\ report' = r
            /\ UNCHANGED result
    /\ UNCHANGED <<cond, visual_report, stage1Vars, started, failed>>

\* vlm_client.py lines 180-213: the visual report is dumped and the prompt
\* is rendered
Step2Render ==
    /\ pc = "s2render"
    /\ \E doc \in configFile, t \in promptFile.step2 :
         IF LoadConfigRaises(doc)
         THEN /\ Step2Raise(Error("config", 0))
              /\ UNCHANGED <<config, s2Reqs, s2Sent, written, files>>
         ELSE /\ config' = Step2Settings(doc)
              /\ IF Step2RenderOk(t)
                 THEN /\ pc' = "s2request"
                      /\ s2Sent' = IF "visual_json" \in t THEN visual_report.meta
                                   ELSE EmptyMeta
                      /\ UNCHANGED <<cond, visual_report, report, stage1Vars, s2Reqs,
                                     s2Failure, outcomeVars>>
                 ELSE /\ Step2Raise(Error("template", 0))
                      /\ UNCHANGED <<s2Reqs, s2Sent, written, files>>
    /\ UNCHANGED <<inputVars>>

\* heat_products: some event has a non-empty heat_reaction_products list
OlfactoryResponses ==
    {[type |-> t, meta |-> EmptyMeta, heat_products |-> FALSE] :
        t \in {"provider_error", "empty", "nonconforming"}}
    \cup {[type |-> "report", meta |-> m, heat_products |-> h] :
            m \in VlmMetas, h \in BOOLEAN}

\* vlm_client.py lines 215-232: the single request of Stage 2
Step2Request ==
    /\ pc = "s2request"
    /\ s2Reqs' = s2Reqs + 1
    /\ \E resp \in OlfactoryResponses :
         IF resp.type = "report"
         THEN Step2Return([type |-> "olfactory", meta |-> resp.meta,
                           heat_products |-> resp.heat_products])
         ELSE Step2Raise(Error(resp.type, s2Reqs + 1))
    /\ UNCHANGED <<inputVars, config, s2Sent, written, files>>

\* main.py lines 85-87
Stamped(meta, c) ==
    [meta EXCEPT !["source_video"] = VideoPath,
                 !["generated_at"] = Now,
                 !["experiment_condition"] = ExperimentNames[c]]

\* the keys are written on the visual report, before Stage 2 is called
StampMetadataEarly ==
    /\ mode = "comparative" /\ pc \in {"s2render", "stamp"}
    /\ IF pc = "stamp"
       THEN /\ report' = [report EXCEPT !.meta = Stamped(report.meta, cond)]
            /\ pc' = "write"
            /\ UNCHANGED visual_report
       ELSE /\ visual_report' = [visual_report EXCEPT
                                    !.meta = Stamped(visual_report.meta, cond)]
            /\ UNCHANGED <<pc, report>>
    /\ UNCHANGED <<inputVars, config, cond, stage1Vars, stage2Vars, outcomeVars>>

StampMetadata ==
    /\ mode = "comparative" /\ pc = "stamp"
    /\ report' = [report EXCEPT !.meta = Stamped(report.meta, cond)]
    /\ pc' = "write"
    /\ UNCHANGED <<inputVars, config, cond, visual_report, stage1Vars, stage2Vars,
                   outcomeVars>>

\* main.py lines 89-91, then the next iteration of the loop
WriteArtifact ==
    /\ mode = "comparative" /\ pc = "write"
    /\ \E writable \in BOOLEAN :
         IF writable
         THEN /\ written' = [written EXCEPT ![cond] = report.meta]
              /\ files' = WriteFile(files, out_paths[cond], report.meta)
              /\ NextIteration(cond)
              /\ UNCHANGED failed
         ELSE /\ ConditionFailed(cond, "write")
              /\ UNCHANGED <<written, files>>
    /\ UNCHANGED <<inputVars, config, stage2Vars>>

----------------------------------------------------------------------------

Init ==
    /\ mode \in {"standard", "comparative"}
    /\ pc = "start"
    /\ cond = 0
    /\ total_frames \in IF mode = "standard" THEN FrameCounts ELSE {0}
    /\ fps \in FpsChoices
    /\ stack = <<>>
    /\ sig = NoSig
    /\ reqCount = 0
    /\ onlyRejected = TRUE
    /\ onlyFailed = TRUE
    /\ renderFailed = "no"
    /\ last = Nil
    /\ visual_report = Nil
    /\ s2Reqs = 0
    /\ s2Sent = Nil
    /\ s2Failure = Nil
    /\ report = Nil
    /\ started = {}
    /\ failed = [c \in 1..NumConditions |-> "no"]
    /\ written = [c \in 1..NumConditions |-> NoArtifact]
    /\ result = NoSig
    /\ configFile = {MissingDoc}
    /\ promptFile = [step1 |-> Step1Templates, step2 |-> Step2Templates]
    /\ schema = Nil
    /\ output = <<>>
    /\ out_paths = <<>>
    /\ files = {}
    /\ config = Nil
    /\ s1Used = {}

Next ==
    \/ ExtractFrames
    \/ AnalyzeVideoSequence
    \/ Step1Render
    \/ Step1Request
    \/ Step1Unwind
    \/ Stage1Done
    \/ Step2Render
    \/ Step2Request
    \/ StampMetadata
    \/ WriteArtifact

Spec == Init /\ [][Next]_vars

----------------------------------------------------------------------------
(* perform_visual_analysis alone, at the request of attempt 1, 2 or 3, for  *)
(* every frame count, rate, last timestamp and entry count within the       *)
(* bounds.  Attempt 2 and 3 are entered the way a run enters them when the  *)
(* earlier responses were reports with an empty frame_log.                  *)

EmptyLogResponse(req) ==
    [type |-> "response", response |-> "report", verdict |-> "rejected",
     req |-> req, attempt |-> req, last_timestamp |-> 0, entry_count |-> 0]

GateResponses ==
    {[type |-> t, last_timestamp |-> 0, entry_count |-> 0, meta |-> EmptyMeta,
      heat |-> FALSE] :
        t \in {"provider_error", "empty", "nonconforming"}}
    \cup
    {[type |-> "report", last_timestamp |-> IF n = 0 THEN 0 ELSE ts,
      entry_count |-> n, meta |-> EmptyMeta, heat |-> FALSE] :
        ts \in 0..MaxTimestamp, n \in 0..MaxEntries}

GateInit ==
    /\ mode = "stage1"
    /\ pc = "stage1"
    /\ cond = 0
    /\ total_frames \in 0..MaxFrames
    /\ fps \in 1..MaxFps
    /\ \E a \in 1..3 :
         /\ stack = [i \in 1..a |-> Frame(i, IF i < a THEN "call_try" ELSE "request")]
         /\ reqCount = a - 1
         /\ last = IF a = 1 THEN Nil ELSE EmptyLogResponse(a - 1)
         /\ onlyFailed = (a = 1)
    /\ sig = NoSig
    /\ onlyRejected = TRUE
    /\ renderFailed = "no"
    /\ visual_report = Nil
    /\ s2Reqs = 0
    /\ s2Sent = Nil
    /\ s2Failure = Nil
    /\ report = Nil
    /\ started = {}
    /\ failed = [c \in 1..NumConditions |-> "no"]
    /\ written = [c \in 1..NumConditions |-> NoArtifact]
    /\ result = NoSig
    /\ configFile = {MissingDoc}
    /\ promptFile = [step1 |-> Step1Templates, step2 |-> Step2Templates]
    /\ schema = Nil
    /\ output = <<>>
    /\ out_paths = <<>>
    /\ files = {}
    /\ config = Step1Settings(MissingDoc)
    /\ s1Used = IF reqCount = 0 THEN {}
                ELSE {[model_name |-> config.model_name, extra |-> config.extra]}

GateRequest == mode = "stage1" /\ Step1RequestFrom(GateResponses)

GateNext == GateRequest

GateSpec == GateInit /\ [][GateNext]_vars

----------------------------------------------------------------------------
(* perform_visual_analysis alone, from its call to its return or raise,    *)
(* while config.json may be rewritten, removed or damaged between loads.   *)
(* Every step of the sequential program is eventually taken: a VLM request *)
(* eventually yields a response or an error.                               *)

Stage1Init ==
    /\ mode = "stage1"
    /\ pc = "stage1"
    /\ cond = 0
    /\ total_frames \in FrameCounts
    /\ fps \in FpsChoices
    /\ stack = <<Frame(1, "render")>>
    /\ sig = NoSig
    /\ reqCount = 0
    /\ onlyRejected = TRUE
    /\ onlyFailed = TRUE
    /\ renderFailed = "no"
    /\ last = Nil
    /\ visual_report = Nil
    /\ s2Reqs = 0
    /\ s2Sent = Nil
    /\ s2Failure = Nil
    /\ report = Nil
    /\ started = {}
    /\ failed = [c \in 1..NumConditions |-> "no"]
    /\ written = [c \in 1..NumConditions |-> NoArtifact]
    /\ result = NoSig
    /\ configFile = ConfigChoices
    /\ promptFile = [step1 |-> Step1Templates, step2 |-> Step2Templates]
    /\ schema = Nil
    /\ output = <<>>
    /\ out_paths = <<>>
    /\ files = {}
    /\ config = Nil
    /\ s1Used = {}

Stage1AloneRequest == mode = "stage1" /\ Step1RequestFrom(VisualResponses)

Stage1Next ==
    \/ Step1Render
    \/ Stage1AloneRequest
    \/ Step1Unwind

Stage1Spec == Stage1Init /\ [][Stage1Next]_vars

Stage1Live == Stage1Spec /\ WF_vars(Stage1Next)

----------------------------------------------------------------------------
(* load_config and _generate_environmental_prompt as each stage applies    *)
(* them (lines 76-79 and 180-183), for every configuration document.       *)

ConfigInit ==
    /\ mode = "config"
    /\ pc = "config"
    /\ cond = 0
    /\ total_frames = 0
    /\ fps \in FpsChoices
    /\ stack = <<>>
    /\ sig = NoSig
    /\ reqCount = 0
    /\ onlyRejected = TRUE
    /\ onlyFailed = TRUE
    /\ renderFailed = "no"
    /\ last = Nil
    /\ visual_report = Nil
    /\ s2Reqs = 0
    /\ s2Sent = Nil
    /\ s2Failure = Nil
    /\ report = Nil
    /\ started = {}
    /\ failed = [c \in 1..NumConditions |-> "no"]
    /\ written = [c \in 1..NumConditions |-> NoArtifact]
    /\ result = NoSig
    /\ configFile \in {{doc} : doc \in AllConfigDocs}
    /\ promptFile = [step1 |-> Step1Templates, step2 |-> Step2Templates]
    /\ schema = Nil
    /\ output = <<>>
    /\ out_paths = <<>>
    /\ files = {}
    /\ config = Nil
    /\ s1Used = {}

LoadSettings(stage) ==
    /\ mode = "config"
    /\ \E doc \in configFile :
         IF LoadConfigRaises(doc)
         THEN /\ result' = [kind |-> "exc", val |-> Error("config", 0)]
              /\ UNCHANGED config
         ELSE /\ config' = IF stage = 1 THEN Step1Settings(doc)
                         ELSE Step2Settings(doc)
              /\ UNCHANGED result
    /\ UNCHANGED <<inputVars, pc, cond, stage1Vars, visual_report, stage2Vars, report,
                   started, failed, written, files>>

LoadStep1Settings == LoadSettings(1)

LoadStep2Settings == LoadSettings(2)

ConfigNext ==
    \/ LoadStep1Settings
    \/ LoadStep2Settings

ConfigSpec == ConfigInit /\ [][ConfigNext]_vars

----------------------------------------------------------------------------
(* analyze_video_sequence with template files that do not change during    *)
(* the run: every Stage-1 template with the standard Stage-2 template, and *)
(* every Stage-2 template with the standard Stage-1 template.              *)

StablePromptFiles ==
    {[step1 |-> {t}, step2 |-> {Step2Full}] : t \in Step1Templates} \cup
    {[step1 |-> {Step1Full}, step2 |-> {t}] : t \in Step2Templates}

RenderInit ==
    /\ mode = "standard"
    /\ pc = "start"
    /\ cond = 0
    /\ total_frames = MaxFrames
    /\ fps \in FpsChoices
    /\ stack = <<>>
    /\ sig = NoSig
    /\ reqCount = 0
    /\ onlyRejected = TRUE
    /\ onlyFailed = TRUE
    /\ renderFailed = "no"
    /\ last = Nil
    /\ visual_report = Nil
    /\ s2Reqs = 0
    /\ s2Sent = Nil
    /\ s2Failure = Nil
    /\ report = Nil
    /\ started = {}
    /\ failed = [c \in 1..NumConditions |-> "no"]
    /\ written = [c \in 1..NumConditions |-> NoArtifact]
    /\ result = NoSig
    /\ configFile = {MissingDoc}
    /\ promptFile \in StablePromptFiles
    /\ schema = Nil
    /\ output = <<>>
    /\ out_paths = <<>>
    /\ files = {}
    /\ config = Nil
    /\ s1Used = {}

RenderNext ==
    \/ AnalyzeVideoSequence
    \/ Step1Render
    \/ Step1Request
    \/ Step1Unwind
    \/ Stage1Done
    \/ Step2Render
    \/ Step2Request

RenderSpec == RenderInit /\ [][RenderNext]_vars

----------------------------------------------------------------------------
(* A Stage-2 response document on its way through the program:             *)
(* model_validate_json (vlm_client.py 228), the stamping of main.py 85-87, *)
(* model_dump_json (main.py 90), and a parse of the written artifact.      *)

SchemaInit ==
    /\ mode = "schema"
    /\ pc = "schema"
    /\ cond = 0
    /\ total_frames = 0
    /\ fps \in FpsChoices
    /\ stack = <<>>
    /\ sig = NoSig
    /\ reqCount = 0
    /\ onlyRejected = TRUE
    /\ onlyFailed = TRUE
    /\ renderFailed = "no"
    /\ last = Nil
    /\ visual_report = Nil
    /\ s2Reqs = 0
    /\ s2Sent = Nil
    /\ s2Failure = Nil
    /\ report = Nil
    /\ started = {}
    /\ failed = [c \in 1..NumConditions |-> "no"]
    /\ written = [c \in 1..NumConditions |-> NoArtifact]
    /\ result = NoSig
    /\ configFile = {MissingDoc}
    /\ promptFile = [step1 |-> Step1Templates, step2 |-> Step2Templates]
    /\ config = Nil
    /\ s1Used = {}
    /\ \E doc \in ReportDocs :
         schema = [at |-> "response", doc |-> doc, value |-> Nil, text |-> Nil,
                   back |-> Nil]
    /\ output = <<>>
    /\ out_paths = <<>>
    /\ files = {}

schemaFrame ==
    <<mode, pc, cond, total_frames, fps, fileVars, output, out_paths, config,
      stage1Vars, visual_report, stage2Vars, report, outcomeVars>>

\* vlm_client.py line 228
ParseResponse ==
    /\ mode = "schema" /\ schema.at = "response"
    /\ LET parsed == ValidateJson(schema.doc)
       IN  schema' = [schema EXCEPT !.at = IF parsed.ok THEN "parsed" ELSE "rejected",
                                    !.value = parsed.value]
    /\ UNCHANGED schemaFrame

\* main.py lines 85-87
StampValue ==
    /\ mode = "schema" /\ schema.at = "parsed"
    /\ \E c \in 1..NumConditions :
         schema' = [schema EXCEPT !.at = "stamped",
                                  !.value.meta = Stamped(schema.value.meta, c)]
    /\ UNCHANGED schemaFrame

\* main.py line 90, or the dump of an unstamped report
DumpValue ==
    /\ mode = "schema" /\ schema.at \in {"parsed", "stamped"}
    /\ schema' = [schema EXCEPT !.at = "dumped", !.text = DumpJson(schema.value)]
    /\ UNCHANGED schemaFrame

\* the written document is parsed back as an OlfactoryAnalysisReport
ParseBack ==
    /\ mode = "schema" /\ schema.at = "dumped"
    /\ schema' = [schema EXCEPT !.at = "reparsed", !.back = ValidateJson(schema.text)]
    /\ UNCHANGED schemaFrame

SchemaNext ==
    \/ ParseResponse
    \/ StampValue
    \/ DumpValue
    \/ ParseBack

SchemaSpec == SchemaInit /\ [][SchemaNext]_vars

----------------------------------------------------------------------------
(* main at the write of condition c (main.py lines 89-91), for every       *)
(* --output within the bounds and whatever the earlier conditions did: both *)
(* stages of condition c succeeded on their first request and its report   *)
(* is stamped; each earlier condition wrote its artifact or failed.        *)

PathInit ==
    /\ mode = "comparative"
    /\ pc = "write"
    /\ cond \in 1..NumConditions
    /\ total_frames = MaxFrames
    /\ fps = MaxFps
    /\ stack = <<>>
    /\ sig = [kind |-> "ret",
              val |-> VisualReport(1, 1, MaxTimestamp, MaxEntries, EmptyMeta, FALSE)]
    /\ reqCount = 1
    /\ onlyRejected = FALSE
    /\ onlyFailed = FALSE
    /\ renderFailed = "no"
    /\ last = [type |-> "response", response |-> "report", verdict |-> "accepted",
               req |-> 1, attempt |-> 1, last_timestamp |-> MaxTimestamp,
               entry_count |-> MaxEntries]
    /\ visual_report = sig.val
    /\ s2Reqs = 1
    /\ s2Sent = EmptyMeta
    /\ s2Failure = Nil
    /\ report = [type |-> "olfactory", meta |-> Stamped(EmptyMeta, cond),
                 heat_products |-> FALSE]
    /\ started = 1..cond
    /\ failed \in [1..NumConditions -> {"no", "stage2"}]
    /\ \A c \in cond..NumConditions : failed[c] = "no"
    /\ written = [c \in 1..NumConditions |->
                    IF c < cond /\ failed[c] = "no" THEN Stamped(EmptyMeta, c)
                    ELSE NoArtifact]
    /\ result = NoSig
    /\ configFile = {MissingDoc}
    /\ promptFile = [step1 |-> Step1Templates, step2 |-> Step2Templates]
    /\ config = Step2Settings(MissingDoc)
    /\ s1Used = {[model_name |-> DEFAULT_MODEL, extra |-> <<>>]}
    /\ schema = Nil
    /\ output \in OutputChoices
    /\ out_paths = OutPaths(output)
    /\ files = {[path |-> out_paths[c], meta |-> written[c]] :
                  c \in {d \in 1..NumConditions : written[d] # NoArtifact}}

PathNext == WriteArtifact

PathSpec == PathInit /\ [][PathNext]_vars

----------------------------------------------------------------------------
(* Properties *)

\* the outermost call of perform_visual_analysis has returned or raised
Stage1Ended == stack = <<>> /\ sig.kind # "none"

\* C1: one invocation of perform_visual_analysis submits at most 3 requests
\* to the VLM, whatever the VLM answers.
C1_AtMostThreeRequests == reqCount <= 3

\* C2: when every Stage-1 response is a conforming report that fails the
\* coverage gate (and every attempt reaches its request),
\* perform_visual_analysis makes exactly 3 requests and returns the report of
\* the 3rd one.
C2_RejectedThriceThenReturned ==
    (onlyRejected /\ renderFailed = "no") =>
        /\ reqCount <= 3
        /\ Stage1Ended =>
             /\ sig.kind = "ret"
             /\ reqCount = 3
             /\ sig.val.req = 3

C2_Witness ==
    /\ Stage1Ended /\ onlyRejected /\ renderFailed = "no"
    /\ reqCount = 3 /\ sig.kind = "ret" /\ sig.val.req = 3
    /\ CoverageGate(sig.val.last_timestamp, sig.val.entry_count, total_frames, fps)
         = "rejected"

\* C3: when every Stage-1 request fails (provider error, empty response or
\* non-conforming response, every attempt reaching its request),
\* perform_visual_analysis makes exactly 3 requests and raises the error of
\* the 3rd one; it returns no report.
C3_FailedThriceThenRaised ==
    (onlyFailed /\ renderFailed = "no") =>
        /\ reqCount <= 3
        /\ Stage1Ended =>
             /\ sig.kind = "exc"
             /\ reqCount = 3
             /\ sig.val.req = 3
             /\ sig.val.cause = last.response

C3_Witness ==
    /\ Stage1Ended /\ onlyFailed /\ renderFailed = "no"
    /\ reqCount = 3 /\ sig.kind = "exc" /\ sig.val.req = 3
    /\ sig.val.cause = "empty"

\* C4: a parsed report is accepted iff its frame_log is non-empty, its last
\* timestamp is at least 95% of frame_count / fps and it has at least 80% of
\* floor(frame_count / fps) entries; an accepted report is returned, any
\* other one is not and makes a call of attempt < 3 retry with attempt + 1.
\* With 40 frames at fps 4, 9.6 s with 9 entries is accepted, 9.0 s is not.
C4_CoverageGate ==
    (last.type = "response" /\ last.response = "report" /\ last.req = reqCount) =>
        LET ts == last.last_timestamp
            n == last.entry_count
            a == last.attempt
            accepted == /\ sig.kind = "ret"
                        /\ sig.val.req = last.req
                        /\ last.verdict = "accepted"
        IN /\ accepted <=>
                /\ n > 0
                /\ total_frames > 0
                /\ 100 * ts * fps >= 95 * 10 * total_frames
                /\ 10 * n >= 8 * (total_frames \div fps)
           /\ (total_frames = 40 /\ fps = 4 /\ ts = 96 /\ n = 9) => accepted
           /\ (total_frames = 40 /\ fps = 4 /\ ts = 90) => ~accepted
           /\ n = 0 => ~accepted
           /\ (~accepted /\ a < 3) =>
                /\ Len(stack) > a
                /\ stack[a + 1].attempt = a + 1
                /\ sig.kind # "ret"

C4_Witness ==
    /\ last.type = "response" /\ last.response = "report" /\ last.req = reqCount
    /\ total_frames = 40 /\ fps = 4
    /\ last.last_timestamp = 96 /\ last.entry_count = 9
    /\ sig.kind = "ret" /\ sig.val.req = last.req

\* C5: Stage 2 sends at most one request per invocation, and a request that
\* yields a provider error, an empty or a non-conforming response makes the
\* invocation fail towards its caller without a second request.
C5_Stage2SingleAttempt ==
    /\ s2Reqs <= 1
    /\ (s2Failure # Nil /\ s2Failure.cause # "template") =>
         /\ s2Reqs = 1
         /\ pc \in {"stage1", "done"}
         /\ mode = "standard" =>
              /\ pc = "done"
              /\ result.kind = "exc"
              /\ result.val.cause = s2Failure.cause
         /\ mode = "comparative" =>
              /\ failed[s2Failure.cond] = "stage2"
              /\ written[s2Failure.cond] = NoArtifact

C5_Witness ==
    /\ mode = "standard" /\ pc = "done"
    /\ s2Failure # Nil /\ s2Failure.cause = "empty"
    /\ s2Reqs = 1 /\ result.kind = "exc"

\* C6: once the frames are extracted, every one of the three conditions is
\* run whatever happened to the others, and every condition that did not
\* fail has its artifact written; in particular when Stage 2 of the third
\* condition fails, the first two artifacts are written unless their own
\* condition failed.
C6_ConditionsIsolated ==
    /\ (mode = "comparative" /\ started # {}) =>
         /\ started = 1..cond
         /\ \A c \in 1..NumConditions :
              (c < cond \/ pc = "done") =>
                 (failed[c] = "no" <=> written[c] # NoArtifact)
    /\ (mode = "comparative" /\ pc = "done" /\ started # {}) =>
         /\ started = 1..NumConditions
         /\ result = Exit("complete")
         /\ failed[3] = "stage2" =>
              \A c \in {1, 2} : failed[c] = "no" => written[c] # NoArtifact

C6_Witness ==
    /\ mode = "comparative" /\ pc = "done"
    /\ failed = <<"no", "no", "stage2">>
    /\ written[1] # NoArtifact /\ written[2] # NoArtifact /\ written[3] = NoArtifact

HasStamp(meta) ==
    /\ meta["source_video"] \notin {Absent, ""}
    /\ meta["generated_at"] \notin {Absent, ""}

\* C7: every report that orchestration returns (standard mode) or writes
\* (comparative mode) has a non-empty meta.source_video and meta.generated_at.
C7_MetadataStamped ==
    /\ (mode = "standard" /\ pc = "done" /\ result.kind = "ret") =>
          HasStamp(result.val.meta)
    /\ \A c \in 1..NumConditions :
          written[c] # NoArtifact => HasStamp(written[c])

StampedKeys(meta) == {k \in MetaKeys : meta[k] \in OrchestratorValues}

\* C8: in a condition the metadata keys are written only after its Stage-1
\* and Stage-2 requests have completed, and no prompt sent to the VLM carries
\* a key written by the orchestrator.
C8_StampAfterInference ==
    /\ (s2Sent # Nil) => StampedKeys(s2Sent) = {}
    /\ (visual_report # Nil) => StampedKeys(visual_report.meta) = {}
    /\ (report # Nil /\ StampedKeys(report.meta) # {}) =>
         /\ pc \in {"write", "done"}
         /\ Stage1Ended /\ sig.kind = "ret" /\ visual_report = sig.val
         /\ s2Reqs = 1 /\ s2Failure = Nil
         /\ StampedKeys(report.meta) = MetaKeys

C8_Witness ==
    /\ mode = "comparative" /\ pc = "write"
    /\ report # Nil /\ StampedKeys(report.meta) = MetaKeys
    /\ s2Sent = VlmMeta /\ s2Reqs = 1

\* C9: in standard mode a failure of Stage 1 ends the run: Stage 2 is not
\* invoked, the caller gets the exception and no report; a failure of Stage 2
\* reaches the caller the same way; nothing is written.
C9_StandardAborts ==
    mode = "standard" =>
        /\ (Stage1Ended /\ sig.kind = "exc") =>
             /\ pc \in {"stage1", "done"}
             /\ s2Reqs = 0 /\ s2Sent = Nil
             /\ visual_report = Nil /\ report = Nil
             /\ pc = "done" => result = sig
        /\ s2Failure # Nil =>
             /\ pc = "done" /\ result.kind = "exc" /\ report = Nil
        /\ \A c \in 1..NumConditions : written[c] = NoArtifact

C9_Witness ==
    /\ mode = "standard" /\ pc = "done"
    /\ Stage1Ended /\ sig.kind = "exc" /\ reqCount = 3
    /\ result = sig /\ s2Reqs = 0

\* C10: a template-render failure of a Stage-1 attempt is not retried: the
\* exception goes up to the caller of perform_visual_analysis and no further
\* attempt starts, on whichever attempt it occurs.
C10_RenderFailureNotRetried ==
    (pc = "stage1" /\ renderFailed = "template") =>
        /\ sig.kind = "exc"
        /\ sig.val.cause = "template"


\* C11: when the frame sampler raises (the video cannot be opened) or gives
\* an empty list, main ends without any VLM request and without any
\* artifact: no condition is started; and a condition only ever runs on a
\* non-empty frame list.
C11_NoInferenceWithoutFrames ==
    /\ (mode = "comparative" /\ result \in {Exit("open_error"), Exit("no_frames")}) =>
         /\ pc = "done"
         /\ started = {}
         /\ reqCount = 0 /\ s2Reqs = 0 /\ last = Nil /\ s2Sent = Nil
         /\ \A c \in 1..NumConditions : written[c] = NoArtifact
    /\ (mode = "comparative" /\ started # {}) => total_frames > 0

C11_Witness ==
    /\ mode = "comparative" /\ pc = "done" /\ result = Exit("no_frames")
    /\ started = {} /\ reqCount = 0 /\ s2Reqs = 0


PassesGate(r) ==
    CoverageGate(r.last_timestamp, r.entry_count, total_frames, fps) = "accepted"

\* C19: a report that fails the coverage gate (or has an empty frame_log) is
\* returned only by a call whose attempt counter is 3; a report made by a
\* call of attempt 1 or 2 and returned passed the gate; a call returns its
\* own report or the one a deeper call returned.
C19_DegradedOnlyAtThree ==
    /\ (pc = "stage1" /\ sig.kind = "ret") =>
         /\ ~PassesGate(sig.val) => sig.val.attempt = 3
         /\ sig.val.attempt \in {1, 2} => PassesGate(sig.val)
         /\ sig.val.attempt > Len(stack)
         /\ sig.val.req <= reqCount
    /\ (visual_report # Nil /\ ~PassesGate(visual_report)) => visual_report.attempt = 3

C19_Witness ==
    /\ pc = "stage1" /\ stack = <<>> /\ sig.kind = "ret"
    /\ ~PassesGate(sig.val) /\ sig.val.attempt = 3
    /\ sig.val.entry_count > 0

\* C20: the attempt counter of every active _step1_visual_analysis call is
\* 1, 2 or 3; a call that waits for a recursive call has attempt < 3 and the
\* call it waits for has its attempt + 1; at most 3 calls are nested.
C20_AttemptsBounded ==
    /\ Len(stack) <= 3
    /\ \A i \in 1..Len(stack) :
         /\ stack[i].attempt \in {1, 2, 3}
         /\ stack[i].attempt = i
         /\ i < Len(stack) =>
              /\ stack[i].at \in {"call_try", "call_except"}
              /\ stack[i].attempt < 3
              /\ stack[i + 1].attempt = stack[i].attempt + 1

C20_Witness ==
    /\ Len(stack) = 3
    /\ stack[1].at = "call_try" /\ stack[2].at = "call_except"
    /\ stack[3].attempt = 3 /\ stack[3].at = "request"
    /\ reqCount = 3


\* C18: every invocation of perform_visual_analysis eventually returns a
\* report or raises, whatever the VLM answers.
C18_Stage1Terminates == <>Stage1Ended

C18_Witness ==
    /\ mode = "stage1" /\ Stage1Ended
    /\ reqCount = 7 /\ sig.kind = "exc"


\* C14: all the requests of one perform_visual_analysis call are sent with the
\* same model identifier and the same toggle-derived extra text, even when
\* config.json changes between the attempts.
C14_SameConfigAcrossAttempts == Cardinality(s1Used) <= 1

\* the document the run of ConfigSpec reads
ConfigDoc == CHOOSE doc \in configFile : TRUE

ToggleIsSet(doc, section, k) ==
    /\ doc.type = "json"
    /\ doc[section].present
    /\ doc[section].toggles[k] = "true"

\* C15: a missing config.json is not an error: the stage gets the default
\* model identifier and an empty extra text; and for every document the line
\* of a toggle is in the stage's extra text iff the toggle is set.
C15_MissingConfigDefaults ==
    mode = "config" =>
      /\ ConfigDoc.type = "missing" => result.kind # "exc"
      /\ config # Nil =>
           LET section == IF config.stage = 1 THEN "step1_visual_config"
                          ELSE "step2_olfactory_config"
               toggles == IF config.stage = 1 THEN Step1Toggles ELSE Step2Toggles
           IN  /\ ConfigDoc.type = "missing" =>
                    /\ config.model_name = DEFAULT_MODEL
                    /\ config.extra = <<>>
               /\ \A k \in Range(toggles) :
                    ToggleLine[k] \in Range(config.extra)
                        <=> ToggleIsSet(ConfigDoc, section, k)
               /\ \A k \in Range(Step1Toggles) \cup Range(Step2Toggles) :
                    ToggleLine[k] \in Range(config.extra) => k \in Range(toggles)

C15_Witness ==
    /\ mode = "config" /\ configFile = {MissingDoc}
    /\ config # Nil /\ config.stage = 2
    /\ config.model_name = DEFAULT_MODEL /\ config.extra = <<>>


\* the template a run of RenderSpec reads for each stage
Step1Template == CHOOSE t \in promptFile.step1 : TRUE
Step2Template == CHOOSE t \in promptFile.step2 : TRUE

\* C17: a readable Stage-1 template whose placeholders are a subset of
\* {fps, estimated_duration, expected_entries, extra_requirements} renders and
\* the stage reaches its VLM request (unless a frame file cannot be read); a
\* readable Stage-2 template whose placeholders are a subset of {visual_json,
\* extra_rules} renders and Stage 2 sends its request; a render fails only for
\* an unreadable template or a placeholder outside the set.
C17_PartialTemplatesRender ==
    LET ok1 == Step1Template # Unreadable /\ Step1Template \subseteq Step1Full
        ok2 == Step2Template # Unreadable /\ Step2Template \subseteq Step2Full
    IN  /\ renderFailed = "template" => ~ok1
        /\ ~ok1 => reqCount = 0
        /\ (ok1 /\ pc \in {"stage1", "done"} /\ stack = <<>> /\ reqCount = 0) =>
             renderFailed = "frame_read"
        /\ (s2Failure # Nil /\ s2Failure.cause = "template") => ~ok2
        /\ ~ok2 => s2Reqs = 0
        /\ (ok2 /\ visual_report # Nil) =>
             \/ pc = "s2render"
             \/ pc = "s2request"
             \/ pc = "done" /\ s2Reqs = 1

C17_Witness ==
    /\ mode = "standard" /\ pc = "done"
    /\ promptFile.step1 = {{"expected_entries"}}
    /\ reqCount >= 1 /\ s2Reqs = 1 /\ result.kind = "ret"


\* C13: a report returned by Stage 2 has an event with a non-empty
\* heat_reaction_products list only when the visual report given to Stage 2
\* records a thermal cue.
C13_HeatConstraint ==
    (report # Nil /\ report.heat_products) => visual_report.heat


\* frame_coverage values are fractions: 0.0 to 1.0, here in tenths
InUnitInterval(x) == x.k = "num" /\ x.v >= 0 /\ x.v <= 10

\* C12: every document accepted as an OlfactoryAnalysisReport has, for every
\* event, interval_time.end_s >= interval_time.start_s and, where a proximity
\* is given, both frame_coverage values within [0, 1].
C12_AcceptedReportsInRange ==
    (schema # Nil /\ schema.at \in {"parsed", "stamped", "dumped", "reparsed"}) =>
      \A i \in 1..Len(schema.value.olfactory_events) :
        LET e == schema.value.olfactory_events[i]
        IN  /\ FloatGe(e.end_s, e.start_s)
            /\ e.proximity # None =>
                 /\ InUnitInterval(e.proximity.frame_coverage_start)
                 /\ InUnitInterval(e.proximity.frame_coverage_end)

\* C16: dumping an OlfactoryAnalysisReport value, stamped or not, and parsing
\* the document back gives a value equal to it field for field.
C16_RoundTrip ==
    (schema # Nil /\ schema.at = "reparsed") =>
      /\ schema.back.ok
      /\ ReportEq(schema.back.value, schema.value)


\* C21: in comparative mode Stage 2 of a condition runs, and sends its
\* request, only after Stage 1 of that condition has returned a report, and
\* on exactly that report; an artifact is written for a condition only when
\* both of its stages succeeded: a condition whose Stage 1 or Stage 2 raised
\* has no artifact, and a Stage-1 failure is followed by no Stage-2 request.
C21_PerConditionOrdering ==
    /\ [](mode = "comparative" =>
            /\ pc \in {"s2render", "s2request", "stamp", "write"} =>
                 /\ Stage1Ended /\ sig.kind = "ret"
                 /\ visual_report = sig.val
                 /\ visual_report.req \in 1..reqCount
                 /\ cond \in started /\ failed[cond] = "no"
            /\ pc \in {"stamp", "write"} =>
                 /\ report # Nil /\ s2Reqs = 1 /\ s2Failure = Nil
            /\ \A c \in 1..NumConditions :
                 failed[c] \in {"stage1", "stage2"} => written[c] = NoArtifact)
    /\ [][mode = "comparative" =>
            /\ s2Reqs' = s2Reqs + 1 =>
                 /\ sig.kind = "ret" /\ visual_report = sig.val
                 /\ failed[cond] = "no"
            /\ \A c \in 1..NumConditions :
                 /\ written'[c] # written[c] =>
                      /\ c = cond /\ failed[c] = "no"
                      /\ sig.kind = "ret" /\ visual_report = sig.val
                      /\ report # Nil /\ s2Reqs = 1 /\ s2Failure = Nil
                 /\ (failed[c] = "no" /\ failed'[c] = "stage1") =>
                      /\ c = cond /\ sig.kind = "exc" /\ visual_report = Nil
                      /\ s2Reqs' = s2Reqs /\ written'[c] = NoArtifact]_vars

C21_Witness ==
    /\ mode = "comparative" /\ pc = "done"
    /\ failed = <<"stage1", "stage2", "no">>
    /\ written[1] = NoArtifact /\ written[2] = NoArtifact /\ written[3] # NoArtifact


\* C22: the three conditions of a run have pairwise distinct artifact paths,
\* with the default naming and with every --output, and the artifact of each
\* condition that wrote one stays on disk as written: no later condition
\* overwrites it.
C22_DistinctArtifactPaths ==
    (mode = "comparative" /\ out_paths # <<>>) =>
      /\ \A c, d \in 1..NumConditions : c # d => out_paths[c] # out_paths[d]
      /\ \A c \in 1..NumConditions :
           written[c] # NoArtifact =>
             {f \in files : f.path = out_paths[c]} =
                {[path |-> out_paths[c], meta |-> written[c]]}
      /\ Cardinality(files) =
           Cardinality({c \in 1..NumConditions : written[c] # NoArtifact})

C22_Witness ==
    /\ mode = "comparative" /\ pc = "done"
    /\ output = <<"r", ".", "r">>
    /\ out_paths[3] = <<"r", "_BASELINE_NAIVE", ".", "r">>
    /\ \A c \in 1..NumConditions : written[c] # NoArtifact
    /\ Cardinality(files) = 3

====
